---- MODULE Spec2Model ----
(***************************************************************************)
(* Model of scripts/integrity_check.mjs of chainconfig (the revision that  *)
(* has the --chains option, src/unnamed/part_001 lines 702-1593): the      *)
(* commands verify-rpcs, verify-contracts and fix, i.e. verifyRpcs,        *)
(* verifyContracts, the merge of the two correction sets and               *)
(* generateCorrectedConfig, run against a network whose answers are chosen *)
(* when a probe is first issued and repeated on every later probe of the   *)
(* same target.                                                            *)
(***************************************************************************)
EXTENDS Integers, Sequences, FiniteSets, TLC

(***************************************************************************)
(* Bounds of the model.                                                    *)
(***************************************************************************)
\* rpcUrls entries in the whole registry, command verify-rpcs
MaxRpcUrls == 3
\* largest defaultRpcUrlIndex of a registry entry, command verify-rpcs
MaxDefaultIndex == 1
\* chain ids that a registry entry can carry and an endpoint can report
MaxChainId == 2
\* rpcUrls entries plus address entries in the whole registry, commands
\* verify-contracts and fix
MaxEntries == 2
\* largest lzSrcId of a registry entry, command check
MaxLzSrcId == 2

(***************************************************************************)
(* The registry keys, in Object.entries order.                             *)
(***************************************************************************)
ChainKeys == <<"a", "b">>

Chains == {ChainKeys[i] : i \in 1..Len(ChainKeys)}

\* the registry keys of command check, which looks at three chains
CheckKeys == <<"a", "b", "c">>

CheckChains == {CheckKeys[i] : i \in 1..Len(CheckKeys)}

(***************************************************************************)
(* Address literals.  "0xAb" is an address in checksummed form and "0xab"  *)
(* the same address in lower case; "0xzz" is a literal that                *)
(* ethers.utils.getAddress rejects; "0xP2" is DEFAULT_ADDRESSES.permit2    *)
(* (all DEFAULT_ADDRESSES are written in checksummed form).  ABSENT stands *)
(* for a key that the addresses object does not have (undefined, null).    *)
(***************************************************************************)
ZERO_ADDRESS == "0x0"

ABSENT == "absent"

DEFAULT_ADDRESSES == [permit2 |-> "0xP2"]

ConfigLiterals == {ZERO_ADDRESS, "0xAb", "0xab", "0xzz"}

Literals == ConfigLiterals \cup {"0xP2"}

\* the addresses whose code the network can be asked for
AddressIds == {"0xAb", "0xP2"}

\* ethers.utils.getAddress accepts the literal
IsAddress(lit) == lit \in {ZERO_ADDRESS, "0xAb", "0xab", "0xP2"}

\* ethers.utils.getAddress: the checksummed form of a literal it accepts
getAddress(lit) == IF lit = "0xab" THEN "0xAb" ELSE lit

(***************************************************************************)
(* contractChecks of verifyContracts: of its nine entries the model keeps  *)
(* the one without a default (wrappedGasToken) and one with a default      *)
(* (permit2); the loop body treats all entries alike.  default = ABSENT is *)
(* default: null.                                                          *)
(***************************************************************************)
contractChecks ==
    << [key |-> "wrappedGasToken", name |-> "WETH", default |-> ABSENT],
       [key |-> "permit2", name |-> "PERMIT2", default |-> DEFAULT_ADDRESSES.permit2] >>

\* Variant: the token loop verifies every key it visits, not only usdc/usdt.
tokensToVerifyEveryKey == {"usdc", "usdt", "gasToken"}

tokensToVerify == {"usdc", "usdt"}

\* REQUIRED_ADDRESSES restricted to the keys of the model, in its order
REQUIRED_ADDRESSES == <<"gasToken", "wrappedGasToken", "usdc", "permit2">>

\* the keys of chain.addresses, in Object.entries order
AddressKeys == <<"gasToken", "wrappedGasToken", "usdc", "permit2">>

AddrKeySet == {AddressKeys[i] : i \in 1..Len(AddressKeys)}

checkedAddressKeys == {contractChecks[i].key : i \in 1..Len(contractChecks)}

VARIABLES
    selectedKeys,        \* cmdFix: the keys given with --chains (<<>>: the option is not given)
    existingChain,       \* mergeChainData: the chain of the registry (<<>>: not this script)
    chainlistChain,      \* mergeChainData: the chain as chainlist.org describes it
    mergedChain,         \* mergeChainData: the chain it returned (<<>>: not yet)
    cmd,                 \* the command: "verify-rpcs", "verify-contracts", "fix"
    run,                 \* 1, or 2 once the corrected registry was fed back
    chainConfig,         \* the loaded registry
    loadedConfig,        \* the registry as loadChainConfig returned it
    rpcNet,              \* network: per chain, the outcomes of its endpoints probed so far
    codeNet,             \* network: per chain and address, the getCode outcome
    callNet,             \* network: per chain, role and address, the interface call outcome
    pc,                  \* the statement the command is at
    ci,                  \* index in ChainKeys of the chain being processed
    ri,                  \* index of the role / address key being processed
    curRpcResults,       \* verifyRpcs: rpcResults of the current chain
    rpcResults,          \* verifyRpcs: results
    rpcCorrections,      \* verifyRpcs: corrections
    checksumIssues,      \* verifyContracts: checksumIssues / otherChecksumIssues
    contractCorrections, \* verifyContracts: corrections
    rpcProbes,           \* the testRpc calls issued in this run, in order
    codeProbes,          \* the getCode / contract calls issued in this run, in order
    allCorrections,      \* cmdFix: allCorrections
    corrected,           \* generateCorrectedConfig: corrected
    changesSummary,      \* generateCorrectedConfig: changesSummary
    hasChanges,          \* generateCorrectedConfig: hasChanges
    savedConfig,         \* chains-corrected.mjs: <<>> or <<registry>>
    issues               \* checkBasicIntegrity: issues, <<>> before it has run

vars == <<selectedKeys, existingChain, chainlistChain, mergedChain, cmd, run, chainConfig, loadedConfig, rpcNet, codeNet, callNet, pc, ci, ri,
          curRpcResults, rpcResults, rpcCorrections, checksumIssues,
          contractCorrections, rpcProbes, codeProbes, allCorrections, corrected,
          changesSummary, hasChanges, savedConfig, issues>>

(***************************************************************************)
(* Helpers                                                                 *)
(***************************************************************************)
RECURSIVE SumOver(_, _)
SumOver(f, S) ==
    IF S = {} THEN 0
    ELSE LET x == CHOOSE y \in S : TRUE IN f[x] + SumOver(f, S \ {x})

\* Array.prototype.find, hits being the indexes of the elements that pass the
\* test: <<>> for undefined, <<element>> otherwise
Find(s, hits) ==
    IF hits = {} THEN <<>>
    ELSE <<s[CHOOSE i \in hits : \A j \in hits : i <= j]>>

NoAddresses == [k \in AddrKeySet |-> ABSENT]

\* a correction set entry that does not exist (corrections[key] undefined)
NoCorrection == [defaultRpcUrlIndex |-> <<>>, chainId |-> <<>>, addresses |-> NoAddresses]

\* Object.keys(corrections) has the key
HasKey(c) == c # NoCorrection

\* results[key] of verifyRpcs before it is written; present: results has the key
NoResult == [present |-> FALSE, rpcResults |-> <<>>, workingRpc |-> <<>>, anyWorkingRpc |-> <<>>]

(***************************************************************************)
(* checkBasicIntegrity                                                     *)
(***************************************************************************)
\* chain.lzSrcId, <<>> when the chain has none
LzSrcId(chain) == IF "lzSrcId" \in DOMAIN chain THEN chain.lzSrcId ELSE <<>>

\* HasLzSrcId that takes a zero lzSrcId for an id
HasLzSrcIdOrZero(chain) == LzSrcId(chain) # <<>>

\* chain.lzSrcId && chain.lzSrcId !== 0
HasLzSrcId(chain) == LzSrcId(chain) # <<>> /\ LzSrcId(chain)[1] # 0

RECURSIVE CheckFrom(_, _, _, _, _, _, _)
\* the loop of checkBasicIntegrity from entry i on; keys, chainIds and lzIds
\* are the sets filled so far, found the issues pushed so far
CheckFrom(entries, config, i, keys, chainIds, lzIds, found) ==
    IF i > Len(entries) THEN found
    ELSE LET key == entries[i]
             chain == config[key]
             dupKey == IF key \in keys
                       THEN <<[issue |-> "Duplicate key", id |-> 0, key |-> key]>>
                       ELSE <<>>
             dupChainId == IF chain.chainId \in chainIds
                           THEN <<[issue |-> "Duplicate chainId", id |-> chain.chainId,
                                   key |-> key]>>
                           ELSE <<>>
             dupLzId == IF HasLzSrcId(chain) /\ LzSrcId(chain)[1] \in lzIds
                        THEN <<[issue |-> "Duplicate LayerZero ID", id |-> LzSrcId(chain)[1],
                                key |-> key]>>
                        ELSE <<>>
         IN CheckFrom(entries, config, i + 1,
                      keys \cup {key},
                      chainIds \cup {chain.chainId},
                      IF HasLzSrcId(chain) THEN lzIds \cup {LzSrcId(chain)[1]} ELSE lzIds,
                      found \o dupKey \o dupChainId \o dupLzId)

\* checkBasicIntegrity(chainConfig), entries being the keys of chainConfig in
\* Object.entries order: the issues it returns
checkBasicIntegrity(entries, config) == CheckFrom(entries, config, 1, {}, {}, {}, <<>>)

\* Object.keys(chainConfig) of cmdFix: every key of the registry, or with
\* --chains the keys given that the registry has, in the order given
ProbedKeys(selected) ==
    LET Found(key) == key \in Chains
    IN IF selected = <<>> THEN ChainKeys ELSE SelectSeq(selected, Found)

\* "Filter chains if --chains option is provided": chainConfig of cmdFix
FilterChains(fullChainConfig, selected) ==
    IF selected = <<>> THEN fullChainConfig
    ELSE [key \in {selected[i] : i \in 1..Len(selected)} \cap Chains |-> fullChainConfig[key]]


(***************************************************************************)
(* Initial states: the registry loadChainConfig returns.                   *)
(***************************************************************************)
Slots == Chains \X AddrKeySet

\* the registry loadChainConfig returns: at most maxEntries endpoints and
\* address entries in all, of them at most maxAddrs address entries, chain
\* ids from ids and default indexes from indexes; the other addresses of
\* the registry are all left out or all written as the zero address (fills)
InitSelected(command, maxEntries, maxAddrs, ids, indexes, fills, selections) ==
    /\ \E n \in [Chains -> 0..maxEntries], S \in SUBSET Slots, fill \in fills :
          /\ Cardinality(S) <= maxAddrs
          /\ SumOver(n, Chains) + Cardinality(S) <= maxEntries
          /\ \E c \in [Chains -> ids], d \in [Chains -> indexes], lit \in [S -> ConfigLiterals] :
                loadedConfig = [k \in Chains |->
                    [chainId |-> c[k], rpcUrls |-> n[k], defaultRpcUrlIndex |-> d[k],
                     addresses |-> [a \in AddrKeySet |->
                                       IF <<k, a>> \in S THEN lit[<<k, a>>] ELSE fill]]]
    /\ selectedKeys \in selections
    /\ chainConfig = FilterChains(loadedConfig, selectedKeys)
    /\ cmd = command
    /\ run = 1
    /\ rpcNet = [k \in Chains |-> <<>>]
    /\ codeNet = [k \in Chains |-> [a \in AddressIds |-> "unknown"]]
    /\ callNet = [k \in Chains |-> [r \in checkedAddressKeys |-> [a \in AddressIds |-> "unknown"]]]
    /\ pc = IF ProbedKeys(selectedKeys) = <<>> THEN "exit" ELSE "verifyRpcs"
    /\ ci = 1
    /\ ri = 1
    /\ curRpcResults = <<>>
    /\ rpcResults = [k \in Chains |-> NoResult]
    /\ rpcCorrections = [k \in Chains |-> NoCorrection]
    /\ checksumIssues = <<>>
    /\ contractCorrections = [k \in Chains |-> NoCorrection]
    /\ rpcProbes = <<>>
    /\ codeProbes = <<>>
    /\ allCorrections = [k \in Chains |-> NoCorrection]
    /\ corrected = <<>>
    /\ changesSummary = [k \in Chains |-> <<>>]
    /\ hasChanges = FALSE
    /\ savedConfig = <<>>
    /\ issues = IF command = "fix" /\ pc # "exit"
                THEN checkBasicIntegrity(ProbedKeys(selectedKeys), chainConfig) ELSE <<>>
    /\ existingChain = <<>>
    /\ chainlistChain = <<>>
    /\ mergedChain = <<>>

\* the registry and the command with no --chains option
InitWith(command, maxEntries, maxAddrs, ids, indexes, fills) ==
    InitSelected(command, maxEntries, maxAddrs, ids, indexes, fills, {<<>>})

(***************************************************************************)
(* testRpc and verifyRpcs                                                  *)
(***************************************************************************)
\* the outcomes of testRpc: { success: true, chainId } or { success: false, error }
RpcOutcomes ==
    {[success |-> TRUE, chainId |-> c] : c \in 1..MaxChainId}
        \cup {[success |-> FALSE, chainId |-> 0]}

\* WorkingRpc without the chainId test: the first reachable endpoint
WorkingRpcAnyChainId(results, chain) ==
    Find(results, {i \in 1..Len(results) : results[i].success})

\* rpcResults.find(r => r.success && r.chainId === chain.chainId)
WorkingRpc(results, chain) ==
    Find(results, {i \in 1..Len(results) :
                      results[i].success /\ results[i].chainId = chain.chainId})

\* AnyWorkingRpc that keeps the last reachable endpoint instead of the first
AnyWorkingRpcLast(results) ==
    LET hits == {i \in 1..Len(results) : results[i].success}
    IN IF hits = {} THEN <<>>
       ELSE <<results[CHOOSE i \in hits : \A j \in hits : j <= i]>>

\* rpcResults.find(r => r.success)
AnyWorkingRpc(results) ==
    Find(results, {i \in 1..Len(results) : results[i].success})

\* RpcCorrection that also moves the default index to the first reachable
\* endpoint when it corrects the chainId
RpcCorrectionMovesIndex(results, chain) ==
    LET workingRpc == WorkingRpc(results, chain)
        anyWorkingRpc == AnyWorkingRpc(results)
        chosen == IF workingRpc # <<>> THEN workingRpc ELSE anyWorkingRpc
    IN [defaultRpcUrlIndex |->
            IF chosen # <<>> /\ chosen[1].index # chain.defaultRpcUrlIndex
            THEN <<chosen[1].index>> ELSE <<>>,
        chainId |->
            IF workingRpc = <<>> /\ anyWorkingRpc # <<>>
            THEN <<anyWorkingRpc[1].chainId>> ELSE <<>>,
        addresses |-> NoAddresses]

\* the correction verifyRpcs records for one chain (NoCorrection: none)
RpcCorrection(results, chain) ==
    LET workingRpc == WorkingRpc(results, chain)
        anyWorkingRpc == AnyWorkingRpc(results)
    IN [defaultRpcUrlIndex |->
            IF workingRpc # <<>> /\ workingRpc[1].index # chain.defaultRpcUrlIndex
            THEN <<workingRpc[1].index>> ELSE <<>>,
        chainId |->
            IF workingRpc = <<>> /\ anyWorkingRpc # <<>>
            THEN <<anyWorkingRpc[1].chainId>> ELSE <<>>,
        addresses |-> NoAddresses]

\* MoreEndpoints of a loop that a failed probe ends
MoreEndpointsUntilFailure(results, chain) ==
    /\ Len(results) < chain.rpcUrls
    /\ \A i \in 1..Len(results) : results[i].success

\* MoreEndpoints of a loop that stops at the first endpoint that reports the
\* configured chainId
MoreEndpointsUntilMatch(results, chain) ==
    /\ Len(results) < chain.rpcUrls
    /\ \A i \in 1..Len(results) :
          ~(results[i].success /\ results[i].chainId = chain.chainId)

\* the condition of the inner loop of verifyRpcs: i < chain.rpcUrls.length
MoreEndpoints(results, chain) == Len(results) < chain.rpcUrls

\* where the command goes when verifyRpcs returns
AfterVerifyRpcs == IF cmd = "verify-rpcs" THEN "done" ELSE "contractChecks"

\* one iteration of the inner loop of verifyRpcs: testRpc on the next endpoint
TestRpc ==
    /\ pc = "verifyRpcs"
    /\ ci <= Len(ProbedKeys(selectedKeys))
    /\ LET key == ProbedKeys(selectedKeys)[ci]
           chain == chainConfig[key]
           i == Len(curRpcResults)
       IN /\ MoreEndpoints(curRpcResults, chain)
          /\ \E result \in RpcOutcomes :
                /\ i < Len(rpcNet[key]) => result = rpcNet[key][i + 1]
                /\ rpcNet' = IF i < Len(rpcNet[key]) THEN rpcNet
                             ELSE [rpcNet EXCEPT ![key] = Append(@, result)]
                /\ curRpcResults' = Append(curRpcResults,
                       [index |-> i, success |-> result.success, chainId |-> result.chainId])
          /\ rpcProbes' = Append(rpcProbes, [chain |-> key, index |-> i])
    /\ UNCHANGED <<selectedKeys, existingChain, chainlistChain, mergedChain,
                   cmd, issues, run, chainConfig, loadedConfig, codeNet, callNet, pc, ci, ri,
                   rpcResults, rpcCorrections, checksumIssues, contractCorrections,
                   codeProbes, allCorrections, corrected, changesSummary, hasChanges,
                   savedConfig>>

\* the end of the outer loop body of verifyRpcs: choose the endpoint, record
\* the correction and the result of the chain, go to the next chain
SelectRpc ==
    /\ pc = "verifyRpcs"
    /\ ci <= Len(ProbedKeys(selectedKeys))
    /\ LET key == ProbedKeys(selectedKeys)[ci]
           chain == chainConfig[key]
       IN /\ ~MoreEndpoints(curRpcResults, chain)
          /\ rpcCorrections' = [rpcCorrections EXCEPT ![key] = RpcCorrection(curRpcResults, chain)]
          /\ rpcResults' = [rpcResults EXCEPT ![key] =
                 [present |-> TRUE, rpcResults |-> curRpcResults,
                  workingRpc |-> WorkingRpc(curRpcResults, chain),
                  anyWorkingRpc |-> AnyWorkingRpc(curRpcResults)]]
    /\ curRpcResults' = <<>>
    /\ ci' = IF ci < Len(ProbedKeys(selectedKeys)) THEN ci + 1 ELSE 1
    /\ pc' = IF ci < Len(ProbedKeys(selectedKeys)) THEN pc ELSE AfterVerifyRpcs
    /\ UNCHANGED <<selectedKeys, existingChain, chainlistChain, mergedChain,
                   cmd, issues, run, chainConfig, loadedConfig, rpcNet, codeNet, callNet, ri,
                   checksumIssues, contractCorrections, rpcProbes, codeProbes,
                   allCorrections, corrected, changesSummary, hasChanges, savedConfig>>

(***************************************************************************)
(* verifyContract and verifyContracts                                      *)
(***************************************************************************)
\* what the network answers to getCode(address): the answer it gave before,
\* any answer on the first request; getCode rejects a literal that is not an
\* address without asking the network
CodeOutcomes(key, address) ==
    IF ~IsAddress(address) \/ address \notin AddressIds THEN {"error"}
    ELSE IF codeNet[key][address] = "unknown" THEN {"code", "nocode", "error"}
    ELSE {codeNet[key][address]}

\* what the network answers to the read-only call that probes the interface
CallOutcomes(key, role, address) ==
    IF address \notin AddressIds THEN {"revert"}
    ELSE IF callNet[key][role][address] = "unknown" THEN {"ok", "revert"}
    ELSE {callNet[key][role][address]}

\* verifyContract(provider, address, abi, interfaceName) for an interface
\* with a view function to call; code and call are the network's answers
verifyContract(address, code, call) ==
    IF address = ABSENT \/ address = ZERO_ADDRESS
    THEN [exists |-> FALSE, verified |-> FALSE, reason |-> "Zero address", probes |-> <<>>]
    ELSE IF ~IsAddress(address)
    THEN [exists |-> FALSE, verified |-> FALSE, reason |-> "Invalid address format",
          probes |-> <<>>]
    ELSE IF code = "error"
    THEN [exists |-> FALSE, verified |-> FALSE, reason |-> "error",
          probes |-> <<[address |-> address, kind |-> "getCode"]>>]
    ELSE IF code = "nocode"
    THEN [exists |-> FALSE, verified |-> FALSE, reason |-> "No code at address",
          probes |-> <<[address |-> address, kind |-> "getCode"]>>]
    ELSE [exists |-> TRUE, verified |-> TRUE,
          reason |-> IF call = "ok" THEN "OK" ELSE "Has bytecode (interface not verified)",
          probes |-> <<[address |-> address, kind |-> "getCode"],
                       [address |-> address, kind |-> "call"]>>]

\* configAddress && configAddress !== ZERO_ADDRESS
IsNonZero(configAddress) == configAddress # ABSENT /\ configAddress # ZERO_ADDRESS

\* checksummedAddr of the loop body: the checksummed form, or the literal
\* itself when it is zero, absent or rejected by getAddress
ChecksummedAddr(configAddress) ==
    IF IsNonZero(configAddress) /\ IsAddress(configAddress)
    THEN getAddress(configAddress) ELSE configAddress

\* needsChecksumFix = configAddress !== checksummedAddr
NeedsChecksumFix(configAddress) ==
    IsNonZero(configAddress) /\ IsAddress(configAddress)
        /\ configAddress # ChecksummedAddr(configAddress)

\* CodeAtConfigured that lets the address stand as written, without the
\* checksum fix, when the interface call fails
CodeAtConfiguredVerifiedOnly(check, configAddress, configCode, call) ==
    [finalAddress |-> IF call = "ok" THEN ChecksummedAddr(configAddress) ELSE configAddress,
     correctionNeeded |-> call = "ok" /\ NeedsChecksumFix(configAddress),
     correctionReason |-> "",
     checksumIssue |-> call = "ok" /\ NeedsChecksumFix(configAddress),
     probes |-> verifyContract(ChecksummedAddr(configAddress), configCode, call).probes]

\* CodeAtConfigured that takes a failed interface call for a missing contract
CodeAtConfiguredStrict(check, configAddress, configCode, call) ==
    IF call = "ok"
    THEN [finalAddress |-> ChecksummedAddr(configAddress),
          correctionNeeded |-> NeedsChecksumFix(configAddress),
          correctionReason |-> "", checksumIssue |-> NeedsChecksumFix(configAddress),
          probes |-> verifyContract(ChecksummedAddr(configAddress), configCode, call).probes]
    ELSE [finalAddress |-> ZERO_ADDRESS, correctionNeeded |-> TRUE,
          correctionReason |-> "Interface not verified", checksumIssue |-> FALSE,
          probes |-> verifyContract(ChecksummedAddr(configAddress), configCode, call).probes]

\* CodeAtConfigured that replaces a configured address by the role's default
CodeAtConfiguredPreferDefault(check, configAddress, configCode, call) ==
    [finalAddress |-> IF check.default # ABSENT THEN check.default
                      ELSE ChecksummedAddr(configAddress),
     correctionNeeded |-> TRUE, correctionReason |-> "Using default",
     checksumIssue |-> FALSE,
     probes |-> verifyContract(ChecksummedAddr(configAddress), configCode, call).probes]

\* bytecode exists at the configured address: the address stands
CodeAtConfigured(check, configAddress, configCode, call) ==
    LET checksummedAddr == ChecksummedAddr(configAddress)
        interfaceCheck == verifyContract(checksummedAddr, configCode, call)
    IN IF interfaceCheck.verified \/ configCode = "code"
       THEN [finalAddress |-> checksummedAddr,
             correctionNeeded |-> NeedsChecksumFix(configAddress),
             correctionReason |-> IF NeedsChecksumFix(configAddress) THEN "Checksum fix" ELSE "",
             checksumIssue |-> NeedsChecksumFix(configAddress),
             probes |-> interfaceCheck.probes]
       ELSE [finalAddress |-> configAddress, correctionNeeded |-> FALSE,
             correctionReason |-> "", checksumIssue |-> FALSE,
             probes |-> interfaceCheck.probes]

\* NoCodeAtConfigured that asks for the default's code and goes to zero anyway
NoCodeAtConfiguredZero(check, configAddress, defaultCode) ==
    IF check.default # ABSENT /\ defaultCode = "error"
    THEN [finalAddress |-> configAddress, correctionNeeded |-> FALSE,
          correctionReason |-> "RPC error", checksumIssue |-> FALSE,
          probes |-> <<[address |-> check.default, kind |-> "getCode"]>>]
    ELSE [finalAddress |-> ZERO_ADDRESS, correctionNeeded |-> TRUE,
          correctionReason |-> "No bytecode at configured", checksumIssue |-> FALSE,
          probes |-> IF check.default # ABSENT
                     THEN <<[address |-> check.default, kind |-> "getCode"]>> ELSE <<>>]

\* NoCodeAtConfigured that takes the default whatever its getCode returns
NoCodeAtConfiguredAssumesDefault(check, configAddress, defaultCode) ==
    IF check.default # ABSENT
    THEN [finalAddress |-> IF defaultCode = "error" THEN configAddress ELSE check.default,
          correctionNeeded |-> defaultCode # "error",
          correctionReason |-> "No bytecode at configured, using default",
          checksumIssue |-> FALSE,
          probes |-> <<[address |-> check.default, kind |-> "getCode"]>>]
    ELSE [finalAddress |-> ZERO_ADDRESS, correctionNeeded |-> TRUE,
          correctionReason |-> "No bytecode at configured", checksumIssue |-> FALSE,
          probes |-> <<>>]

\* no bytecode at the configured address: the default, or zero
NoCodeAtConfigured(check, configAddress, defaultCode) ==
    IF check.default # ABSENT
    THEN LET probes == <<[address |-> check.default, kind |-> "getCode"]>>
         IN IF defaultCode = "error"
            THEN [finalAddress |-> configAddress, correctionNeeded |-> FALSE,
                  correctionReason |-> "RPC error", checksumIssue |-> FALSE,
                  probes |-> probes]
            ELSE IF defaultCode = "code"
            THEN [finalAddress |-> check.default, correctionNeeded |-> TRUE,
                  correctionReason |-> "No bytecode at configured, using default",
                  checksumIssue |-> FALSE, probes |-> probes]
            ELSE [finalAddress |-> ZERO_ADDRESS, correctionNeeded |-> TRUE,
                  correctionReason |-> "No bytecode at configured or default",
                  checksumIssue |-> FALSE, probes |-> probes]
    ELSE [finalAddress |-> ZERO_ADDRESS, correctionNeeded |-> TRUE,
          correctionReason |-> "No bytecode at configured", checksumIssue |-> FALSE,
          probes |-> <<>>]

\* ZeroConfigured that takes the default when asking for its code fails
ZeroConfiguredTrustsDefault(check, configAddress, defaultCode) ==
    IF check.default # ABSENT
    THEN [finalAddress |-> IF defaultCode = "nocode" THEN ZERO_ADDRESS ELSE check.default,
          correctionNeeded |-> defaultCode # "nocode", correctionReason |-> "",
          checksumIssue |-> FALSE,
          probes |-> <<[address |-> check.default, kind |-> "getCode"]>>]
    ELSE [finalAddress |-> configAddress, correctionNeeded |-> FALSE,
          correctionReason |-> "Zero address (no default)", checksumIssue |-> FALSE,
          probes |-> <<>>]

\* ZeroConfigured that asks for a correction also when the default has no code
ZeroConfiguredAlwaysNeeded(check, configAddress, defaultCode) ==
    IF check.default # ABSENT
    THEN [finalAddress |-> IF defaultCode = "code" THEN check.default ELSE ZERO_ADDRESS,
          correctionNeeded |-> TRUE, correctionReason |-> "",
          checksumIssue |-> FALSE,
          probes |-> <<[address |-> check.default, kind |-> "getCode"]>>]
    ELSE [finalAddress |-> configAddress, correctionNeeded |-> FALSE,
          correctionReason |-> "Zero address (no default)", checksumIssue |-> FALSE,
          probes |-> <<>>]

\* Case 2: the configured address is the zero address (or absent)
ZeroConfigured(check, configAddress, defaultCode) ==
    IF check.default # ABSENT
    THEN LET probes == <<[address |-> check.default, kind |-> "getCode"]>>
         IN IF defaultCode = "error"
            THEN [finalAddress |-> configAddress, correctionNeeded |-> FALSE,
                  correctionReason |-> "RPC error checking default",
                  checksumIssue |-> FALSE, probes |-> probes]
            ELSE IF defaultCode = "code"
            THEN [finalAddress |-> check.default, correctionNeeded |-> TRUE,
                  correctionReason |-> "Found bytecode at default",
                  checksumIssue |-> FALSE, probes |-> probes]
            ELSE [finalAddress |-> ZERO_ADDRESS, correctionNeeded |-> FALSE,
                  correctionReason |-> "Zero address correct (default not deployed)",
                  checksumIssue |-> FALSE, probes |-> probes]
    ELSE [finalAddress |-> configAddress, correctionNeeded |-> FALSE,
          correctionReason |-> "Zero address (no default)", checksumIssue |-> FALSE,
          probes |-> <<>>]

\* the body of the loop over contractChecks, up to "Apply correction if
\* needed", for one role; configCode, defaultCode and call are the network's
\* answers to the probes the body may issue
ContractCheck(check, configAddress, configCode, defaultCode, call) ==
    LET first == <<[address |-> ChecksummedAddr(configAddress), kind |-> "getCode"]>>
    IN IF IsNonZero(configAddress)
       THEN IF configCode = "error"
            THEN [finalAddress |-> configAddress, correctionNeeded |-> FALSE,
                  correctionReason |-> "RPC error", checksumIssue |-> FALSE,
                  probes |-> first]
            ELSE LET rest == IF configCode = "code"
                             THEN CodeAtConfigured(check, configAddress, configCode, call)
                             ELSE NoCodeAtConfigured(check, configAddress, defaultCode)
                 IN [rest EXCEPT !.probes = first \o @]
       ELSE ZeroConfigured(check, configAddress, defaultCode)

\* ChosenRpc that falls back to the first endpoint of the list when none works
ChosenRpcOrFirst(rpcInfo) ==
    IF rpcInfo.workingRpc # <<>> THEN rpcInfo.workingRpc
    ELSE IF rpcInfo.anyWorkingRpc # <<>> THEN rpcInfo.anyWorkingRpc
    ELSE <<[index |-> 0, success |-> FALSE, chainId |-> 0]>>

\* ChosenRpc that prefers the first endpoint that answered at all
ChosenRpcAnyWorkingFirst(rpcInfo) ==
    IF rpcInfo.anyWorkingRpc # <<>> THEN rpcInfo.anyWorkingRpc ELSE rpcInfo.workingRpc

\* rpcInfo?.workingRpc || rpcInfo?.anyWorkingRpc
ChosenRpc(rpcInfo) ==
    IF rpcInfo.workingRpc # <<>> THEN rpcInfo.workingRpc ELSE rpcInfo.anyWorkingRpc

\* SetAddress that writes the value for the address key of every chain
SetAddressEveryChain(corrections, key, addrKey, value) ==
    [c \in DOMAIN corrections |-> [corrections[c] EXCEPT !.addresses[addrKey] = value]]

\* corrections[key].addresses[addrKey] = value
SetAddress(corrections, key, addrKey, value) ==
    [corrections EXCEPT ![key].addresses[addrKey] = value]

\* a probe of the kind was issued for the address
Probed(probes, kind, address) ==
    \E i \in 1..Len(probes) : probes[i].kind = kind /\ probes[i].address = address

\* the probes as the log records them: chain, endpoint used, the address key
\* they were issued for, address, kind
Logged(key, rpc, addrKey, probes) ==
    [i \in 1..Len(probes) |->
        [chain |-> key, rpc |-> rpc, role |-> addrKey, address |-> probes[i].address,
         kind |-> probes[i].kind]]

\* AfterVerifyContracts of a verify-contracts that goes on as fix does
AfterVerifyContractsAlwaysMerge == "merge"

\* where the command goes when verifyContracts returns
AfterVerifyContracts == IF cmd = "fix" THEN "merge" ELSE "done"

\* "Skip if no working RPC": the chain is left out, continue with the next
SkipChain ==
    /\ pc = "contractChecks"
    /\ ri = 1
    /\ ChosenRpc(rpcResults[ProbedKeys(selectedKeys)[ci]]) = <<>>
    /\ ci' = IF ci < Len(ProbedKeys(selectedKeys)) THEN ci + 1 ELSE 1
    /\ pc' = IF ci < Len(ProbedKeys(selectedKeys)) THEN pc ELSE AfterVerifyContracts
    /\ UNCHANGED <<selectedKeys, existingChain, chainlistChain, mergedChain,
                   cmd, issues, run, chainConfig, loadedConfig, rpcNet, codeNet, callNet, ri,
                   curRpcResults, rpcResults, rpcCorrections, checksumIssues,
                   contractCorrections, rpcProbes, codeProbes, allCorrections,
                   corrected, changesSummary, hasChanges, savedConfig>>

\* one iteration of the loop over contractChecks
CheckContract ==
    /\ pc = "contractChecks"
    /\ ri <= Len(contractChecks)
    /\ ChosenRpc(rpcResults[ProbedKeys(selectedKeys)[ci]]) # <<>>
    /\ LET key == ProbedKeys(selectedKeys)[ci]
           rpc == ChosenRpc(rpcResults[key])[1].index
           check == contractChecks[ri]
           configAddress == chainConfig[key].addresses[check.key]
           checksummedAddr == ChecksummedAddr(configAddress)
       IN \E configCode \in CodeOutcomes(key, checksummedAddr),
             defaultCode \in CodeOutcomes(key, check.default),
             call \in CallOutcomes(key, check.key, checksummedAddr) :
            LET v == ContractCheck(check, configAddress, configCode, defaultCode, call)
            IN /\ check.default = checksummedAddr => defaultCode = configCode
               /\ codeNet' = [codeNet EXCEPT ![key] =
                     [a \in AddressIds |->
                        IF ~Probed(v.probes, "getCode", a) THEN @[a]
                        ELSE IF a = checksummedAddr THEN configCode ELSE defaultCode]]
               /\ callNet' = [callNet EXCEPT ![key][check.key] =
                     [a \in AddressIds |->
                        IF Probed(v.probes, "call", a) THEN call ELSE @[a]]]
               /\ contractCorrections' =
                     IF v.correctionNeeded /\ v.finalAddress # configAddress
                     THEN SetAddress(contractCorrections, key, check.key, v.finalAddress)
                     ELSE contractCorrections
               /\ checksumIssues' =
                     IF v.checksumIssue
                     THEN Append(checksumIssues,
                                 [key |-> check.key, original |-> configAddress,
                                  checksummed |-> checksummedAddr])
                     ELSE checksumIssues
               /\ codeProbes' = codeProbes \o Logged(key, rpc, check.key, v.probes)
    /\ ri' = IF ri < Len(contractChecks) THEN ri + 1 ELSE 1
    /\ pc' = IF ri < Len(contractChecks) THEN pc ELSE "checksumIssues"
    /\ UNCHANGED <<selectedKeys, existingChain, chainlistChain, mergedChain,
                   cmd, issues, run, chainConfig, loadedConfig, rpcNet, ci, curRpcResults,
                   rpcResults, rpcCorrections, rpcProbes, allCorrections, corrected,
                   changesSummary, hasChanges, savedConfig>>

RECURSIVE ApplyChecksumIssues(_, _, _)
\* "Report checksum issues": corrections[key].addresses[issue.key] = issue.checksummed
ApplyChecksumIssues(corrections, key, pending) ==
    IF pending = <<>> THEN corrections
    ELSE ApplyChecksumIssues(
             SetAddress(corrections, key, Head(pending).key, Head(pending).checksummed),
             key, Tail(pending))

\* the body of the loop over Object.entries(chain.addresses) for one entry;
\* code is the network's answer to getCode if the body asks
OtherAddressCheck(addrKey, addrValue, code) ==
    LET none == [probes |-> <<>>, checksumIssue |-> FALSE, toZero |-> FALSE]
        probes == <<[address |-> ChecksummedAddr(addrValue), kind |-> "getCode"]>>
    IN IF addrKey \in checkedAddressKeys \/ ~IsNonZero(addrValue) THEN none
       ELSE IF addrKey \notin tokensToVerify THEN none
       ELSE IF ~IsAddress(addrValue) THEN none
       ELSE IF code = "error" THEN [none EXCEPT !.probes = probes]
       ELSE [probes |-> probes,
             checksumIssue |-> NeedsChecksumFix(addrValue),
             toZero |-> code = "nocode"]

RECURSIVE OtherAddresses(_, _, _, _, _, _)
\* the loop over Object.entries(chain.addresses), from entry i on: the
\* corrections, the otherChecksumIssues and the probes it ends with
OtherAddresses(acc, key, rpc, addresses, code, i) ==
    IF i > Len(AddressKeys) THEN acc
    ELSE LET addrKey == AddressKeys[i]
             addrValue == addresses[addrKey]
             v == OtherAddressCheck(addrKey, addrValue, code[addrKey])
         IN OtherAddresses(
                [corrections |-> IF v.toZero
                                 THEN SetAddress(acc.corrections, key, addrKey, ZERO_ADDRESS)
                                 ELSE acc.corrections,
                 issues |-> IF v.checksumIssue
                            THEN Append(acc.issues,
                                        [key |-> addrKey, original |-> addrValue,
                                         checksummed |-> ChecksummedAddr(addrValue)])
                            ELSE acc.issues,
                 probes |-> acc.probes \o Logged(key, rpc, addrKey, v.probes)],
                key, rpc, addresses, code, i + 1)

\* the rest of the chain's iteration after the loop over contractChecks:
\* "Report checksum issues", "Check all other non-zero addresses", "Report
\* other checksum issues", results[key] = chainResults; then the next chain
CheckOtherAddresses ==
    /\ pc = "checksumIssues"
    /\ LET key == ProbedKeys(selectedKeys)[ci]
           rpc == ChosenRpc(rpcResults[key])[1].index
           addresses == chainConfig[key].addresses
           reported == ApplyChecksumIssues(contractCorrections, key, checksumIssues)
       IN \E tokenCode \in [AddrKeySet \cap tokensToVerify -> {"code", "nocode", "error"}] :
            /\ \A a \in DOMAIN tokenCode :
                  tokenCode[a] \in CodeOutcomes(key, ChecksummedAddr(addresses[a]))
            /\ \A a, b \in DOMAIN tokenCode :
                  ChecksummedAddr(addresses[a]) = ChecksummedAddr(addresses[b])
                      => tokenCode[a] = tokenCode[b]
            /\ LET code == [a \in AddrKeySet |->
                                IF a \in DOMAIN tokenCode THEN tokenCode[a] ELSE "error"]
                   v == OtherAddresses([corrections |-> reported, issues |-> <<>>,
                                        probes |-> <<>>], key, rpc, addresses, code, 1)
               IN /\ codeNet' = [codeNet EXCEPT ![key] =
                        [a \in AddressIds |->
                           IF Probed(v.probes, "getCode", a)
                           THEN code[CHOOSE k \in AddrKeySet :
                                        ChecksummedAddr(addresses[k]) = a
                                            /\ OtherAddressCheck(k, addresses[k], code[k]).probes # <<>>]
                           ELSE @[a]]]
                  /\ contractCorrections' = ApplyChecksumIssues(v.corrections, key, v.issues)
                  /\ codeProbes' = codeProbes \o v.probes
    /\ checksumIssues' = <<>>
    /\ ci' = IF ci < Len(ProbedKeys(selectedKeys)) THEN ci + 1 ELSE 1
    /\ pc' = IF ci < Len(ProbedKeys(selectedKeys)) THEN "contractChecks" ELSE AfterVerifyContracts
    /\ UNCHANGED <<selectedKeys, existingChain, chainlistChain, mergedChain,
                   cmd, issues, run, chainConfig, loadedConfig, rpcNet, callNet, ri,
                   curRpcResults, rpcResults, rpcCorrections, rpcProbes, allCorrections,
                   corrected, changesSummary, hasChanges, savedConfig>>

(***************************************************************************)
(* cmdFix: the merge of the corrections, generateCorrectedConfig, the save *)
(***************************************************************************)
\* MergeCorrection that keeps the contract verifier's entry alone when the
\* key has one
MergeCorrectionContractOnly(rpc, contract) ==
    IF HasKey(contract) THEN contract ELSE rpc

\* { ...rpcCorrections[key], ...contractCorrections[key],
\*   addresses: { ...rpcCorrections[key]?.addresses, ...contractCorrections[key]?.addresses } }
MergeCorrection(rpc, contract) ==
    [defaultRpcUrlIndex |->
        IF contract.defaultRpcUrlIndex # <<>> THEN contract.defaultRpcUrlIndex
        ELSE rpc.defaultRpcUrlIndex,
     chainId |-> IF contract.chainId # <<>> THEN contract.chainId ELSE rpc.chainId,
     addresses |-> [a \in AddrKeySet |->
        IF contract.addresses[a] # ABSENT THEN contract.addresses[a]
        ELSE rpc.addresses[a]]]

\* "Merge corrections": allCorrections of cmdFix
MergeCorrections(rpc, contract) ==
    [k \in Chains |->
        IF HasKey(rpc[k]) \/ HasKey(contract[k])
        THEN MergeCorrection(rpc[k], contract[k])
        ELSE NoCorrection]

\* ApplyCorrections that leaves the chainId as it was
ApplyCorrectionsKeepsChainId(chain, corrections) ==
    [chain EXCEPT
        !.defaultRpcUrlIndex = IF corrections.defaultRpcUrlIndex # <<>>
                               THEN corrections.defaultRpcUrlIndex[1] ELSE @,
        !.addresses = [a \in AddrKeySet |->
                          IF corrections.addresses[a] # ABSENT
                          THEN corrections.addresses[a] ELSE @[a]]]

\* the chain after "Apply corrections from checks"
ApplyCorrections(chain, corrections) ==
    [chain EXCEPT
        !.defaultRpcUrlIndex = IF corrections.defaultRpcUrlIndex # <<>>
                               THEN corrections.defaultRpcUrlIndex[1] ELSE @,
        !.chainId = IF corrections.chainId # <<>> THEN corrections.chainId[1] ELSE @,
        !.addresses = [a \in AddrKeySet |->
                          IF corrections.addresses[a] # ABSENT
                          THEN corrections.addresses[a] ELSE @[a]]]

\* EnsureRequired that leaves the missing addresses out
EnsureRequiredNothing(chain) == chain

\* the chain after "Ensure all required addresses are present"
EnsureRequired(chain) ==
    [chain EXCEPT !.addresses = [a \in AddrKeySet |->
        IF (\E i \in 1..Len(REQUIRED_ADDRESSES) : REQUIRED_ADDRESSES[i] = a) /\ @[a] = ABSENT
        THEN ZERO_ADDRESS ELSE @[a]]]

\* chainChanges of one chain: one entry per applied correction and per
\* backfilled address (the address corrections in the order of AddressKeys)
ChainChanges(chain, corrections) ==
    LET applied == ApplyCorrections(chain, corrections)
        IsCorrected(a) == corrections.addresses[a] # ABSENT
        IsMissing(a) == applied.addresses[a] = ABSENT
        updated == SelectSeq(AddressKeys, IsCorrected)
        missing == SelectSeq(REQUIRED_ADDRESSES, IsMissing)
    IN (IF corrections.defaultRpcUrlIndex # <<>>
        THEN <<[change |-> "Updated", field |-> "defaultRpcUrlIndex"]>> ELSE <<>>)
       \o (IF corrections.chainId # <<>>
           THEN <<[change |-> "Updated", field |-> "chainId"]>> ELSE <<>>)
       \o [i \in 1..Len(updated) |-> [change |-> "Updated address", field |-> updated[i]]]
       \o [i \in 1..Len(missing) |-> [change |-> "Added missing address", field |-> missing[i]]]

\* generateCorrectedConfig that reports changes whatever the change log holds
generateCorrectedConfigAlwaysChanged(config, corrections) ==
    [corrected |-> [k \in DOMAIN config |-> EnsureRequired(ApplyCorrections(config[k], corrections[k]))],
     hasChanges |-> TRUE,
     changesSummary |-> [k \in DOMAIN config |-> ChainChanges(config[k], corrections[k])]]

\* generateCorrectedConfig(chainConfig, allCorrections)
generateCorrectedConfig(config, corrections) ==
    LET changes == [k \in DOMAIN config |-> ChainChanges(config[k], corrections[k])]
    IN [corrected |-> [k \in DOMAIN config |-> EnsureRequired(ApplyCorrections(config[k], corrections[k]))],
        hasChanges |-> \E k \in DOMAIN config : changes[k] # <<>>,
        changesSummary |-> changes]

\* formatChainObject(key, chain): the text written for one chain, read back;
\* chainId, rpcUrls and defaultRpcUrlIndex are written as they are, and an
\* address is written when it is defined
formatChainObject(chain) ==
    [chainId |-> chain.chainId,
     rpcUrls |-> chain.rpcUrls,
     defaultRpcUrlIndex |-> chain.defaultRpcUrlIndex,
     addresses |-> [a \in AddrKeySet |->
                       IF chain.addresses[a] # ABSENT THEN chain.addresses[a] ELSE ABSENT]]

\* saveCorrectedConfig(correctedConfig): chains-corrected.mjs, one
\* formatChainObject per chain
saveCorrectedConfig(correctedConfig) ==
    [k \in DOMAIN correctedConfig |-> formatChainObject(correctedConfig[k])]

\* the argument with corrected being the argument itself, not a clone of it
ArgumentAliased(config, correctedConfig) == correctedConfig

\* the chainConfig argument of generateCorrectedConfig once it has returned:
\* corrected is JSON.parse(JSON.stringify(chainConfig)), a deep clone, so the
\* assignments to corrected[key] leave the argument as it was
ArgumentAfterGenerate(config, correctedConfig) == config

\* configPath of loadChainConfig: the registry file the commands read
configPath == "chains.mjs"

\* outputPath of saveCorrectedConfig: the file the corrected registry goes to
outputPath == "chains-corrected.mjs"

\* fs.writeFileSync(path, content) as seen from one file: its content after
\* the write (old: its content before)
writeFileSync(path, file, old, content) == IF path = file THEN content ELSE old

\* configForOutput of a cmdFix that hands the filtered registry on
configForOutputFiltered(selected, fullChainConfig, config) == config

\* configForOutput = selectedKeys ? fullChainConfig : chainConfig
configForOutput(selected, fullChainConfig, config) ==
    IF selected # <<>> THEN fullChainConfig ELSE config

\* the rest of cmdFix once verifyContracts has returned: merge the
\* corrections, generateCorrectedConfig, and what follows according to save
FinishFix(save) ==
    /\ pc = "merge"
    /\ LET merged == MergeCorrections(rpcCorrections, contractCorrections)
           g == generateCorrectedConfig(
                    configForOutput(selectedKeys, loadedConfig, chainConfig), merged)
       IN /\ g.hasChanges = save
          /\ allCorrections' = merged
          /\ corrected' = <<g.corrected>>
          /\ hasChanges' = g.hasChanges
          /\ changesSummary' = g.changesSummary
          /\ savedConfig' =
                IF save
                THEN writeFileSync(outputPath, "chains-corrected.mjs", savedConfig,
                                   <<saveCorrectedConfig(g.corrected)>>)
                ELSE savedConfig
          /\ loadedConfig' =
                IF save
                THEN writeFileSync(outputPath, configPath, loadedConfig,
                                   saveCorrectedConfig(g.corrected))
                ELSE loadedConfig
          /\ chainConfig' = IF selectedKeys = <<>>
                            THEN ArgumentAfterGenerate(chainConfig, g.corrected)
                            ELSE chainConfig
    /\ pc' = "done"
    /\ UNCHANGED <<selectedKeys, existingChain, chainlistChain, mergedChain,
                   cmd, issues, run, rpcNet, codeNet, callNet, ci, ri,
                   curRpcResults, rpcResults, rpcCorrections, checksumIssues,
                   contractCorrections, rpcProbes, codeProbes>>

\* if (hasChanges): the summary is printed and saveCorrectedConfig(corrected)
\* writes chains-corrected.mjs
SaveCorrectedConfig == FinishFix(TRUE)

\* else: "No corrections needed", nothing is written
NoCorrectionsNeeded == FinishFix(FALSE)

\* the corrected registry of the finished run replaces the registry and fix
\* is run again; the network keeps answering as it did
RunAgain ==
    /\ pc = "done"
    /\ cmd = "fix"
    /\ run = 1
    /\ savedConfig # <<>>
    /\ run' = 2
    /\ chainConfig' = savedConfig[1]
    /\ loadedConfig' = savedConfig[1]
    /\ pc' = "verifyRpcs"
    /\ ci' = 1
    /\ ri' = 1
    /\ curRpcResults' = <<>>
    /\ rpcResults' = [k \in Chains |-> NoResult]
    /\ rpcCorrections' = [k \in Chains |-> NoCorrection]
    /\ checksumIssues' = <<>>
    /\ contractCorrections' = [k \in Chains |-> NoCorrection]
    /\ rpcProbes' = <<>>
    /\ codeProbes' = <<>>
    /\ allCorrections' = [k \in Chains |-> NoCorrection]
    /\ corrected' = <<>>
    /\ changesSummary' = [k \in Chains |-> <<>>]
    /\ hasChanges' = FALSE
    /\ savedConfig' = <<>>
    /\ issues' = checkBasicIntegrity(ChainKeys, savedConfig[1])
    /\ UNCHANGED <<selectedKeys, existingChain, chainlistChain, mergedChain,
                   cmd, rpcNet, codeNet, callNet>>

(***************************************************************************)
(* Command check                                                           *)
(***************************************************************************)
\* the registry of command check: chain ids and lzSrcId values (<<>>: the
\* chain has none) of three chains
InitCheck ==
    /\ \E c \in [CheckChains -> 1..MaxChainId],
          z \in [CheckChains -> {<<>>} \cup {<<n>> : n \in 0..MaxLzSrcId}] :
          chainConfig = [k \in CheckChains |-> [chainId |-> c[k], lzSrcId |-> z[k]]]
    /\ cmd = "check"
    /\ run = 1
    /\ loadedConfig = chainConfig
    /\ rpcNet = [k \in Chains |-> <<>>]
    /\ codeNet = [k \in Chains |-> [a \in AddressIds |-> "unknown"]]
    /\ callNet = [k \in Chains |-> [r \in checkedAddressKeys |-> [a \in AddressIds |-> "unknown"]]]
    /\ pc = "check"
    /\ ci = 1
    /\ ri = 1
    /\ curRpcResults = <<>>
    /\ rpcResults = [k \in Chains |-> NoResult]
    /\ rpcCorrections = [k \in Chains |-> NoCorrection]
    /\ checksumIssues = <<>>
    /\ contractCorrections = [k \in Chains |-> NoCorrection]
    /\ rpcProbes = <<>>
    /\ codeProbes = <<>>
    /\ allCorrections = [k \in Chains |-> NoCorrection]
    /\ corrected = <<>>
    /\ changesSummary = [k \in Chains |-> <<>>]
    /\ hasChanges = FALSE
    /\ savedConfig = <<>>
    /\ issues = <<>>
    /\ existingChain = <<>>
    /\ chainlistChain = <<>>
    /\ mergedChain = <<>>
    /\ selectedKeys = <<>>

\* cmdCheck: checkBasicIntegrity(chainConfig)
CmdCheck ==
    /\ pc = "check"
    /\ issues' = checkBasicIntegrity(CheckKeys, chainConfig)
    /\ pc' = "done"
    /\ UNCHANGED <<selectedKeys, existingChain, chainlistChain, mergedChain,
                   cmd, run, chainConfig, loadedConfig, rpcNet, codeNet, callNet, ci, ri,
                   curRpcResults, rpcResults, rpcCorrections, checksumIssues,
                   contractCorrections, rpcProbes, codeProbes, allCorrections, corrected,
                   changesSummary, hasChanges, savedConfig>>

NextCheck == CmdCheck

SpecCheck == InitCheck /\ [][NextCheck]_vars

(***************************************************************************)
(* Command verify-rpcs                                                     *)
(***************************************************************************)
InitRpc ==
    InitWith("verify-rpcs", MaxRpcUrls, 0, 1..MaxChainId, 0..MaxDefaultIndex, {ABSENT})

NextRpc == TestRpc \/ SelectRpc

SpecRpc == InitRpc /\ [][NextRpc]_vars

\* verify-rpcs with its steps taken: every await of verifyRpcs returns, testRpc
\* turning a rejection or a timeout of the provider into a result
SpecRpcFair == SpecRpc /\ WF_vars(NextRpc)

(***************************************************************************)
(* Command verify-contracts                                                *)
(***************************************************************************)
\* the chain id and the default index of a chain play no part in verifyContracts
InitContracts ==
    InitWith("verify-contracts", MaxEntries, MaxEntries - 1, {1}, {0}, {ABSENT})

NextContracts ==
    \/ TestRpc
    \/ SelectRpc
    \/ SkipChain
    \/ CheckContract
    \/ CheckOtherAddresses

SpecContracts == InitContracts /\ [][NextContracts]_vars

\* verify-contracts with its steps taken: every await of verifyContracts
\* returns or throws into a catch of the loop body
SpecContractsFair == SpecContracts /\ WF_vars(NextContracts)

(***************************************************************************)
(* Command fix, and fix again on the registry it wrote                     *)
(***************************************************************************)
Init == InitWith("fix", MaxEntries, MaxEntries - 1, {1}, {0}, {ABSENT, ZERO_ADDRESS})

Next ==
    \/ TestRpc
    \/ SelectRpc
    \/ SkipChain
    \/ CheckContract
    \/ CheckOtherAddresses
    \/ SaveCorrectedConfig
    \/ NoCorrectionsNeeded

Spec == Init /\ [][Next]_vars

(***************************************************************************)
(* Command verify-contracts on a registry whose chains are configured      *)
(* alike: one endpoint each and the same address entry, each chain with    *)
(* its own network                                                         *)
(***************************************************************************)
InitMirror ==
    /\ InitWith("verify-contracts", 2 * Len(ChainKeys), Len(ChainKeys), {1}, {0}, {ABSENT})
    /\ \A k \in Chains :
          /\ chainConfig[k].rpcUrls = 1
          /\ chainConfig[k] = chainConfig[ChainKeys[1]]

SpecMirror == InitMirror /\ [][NextContracts]_vars

(***************************************************************************)
(* Command fix on registries whose default indexes may point past the end  *)
(* of rpcUrls                                                              *)
(***************************************************************************)
InitIndex ==
    InitWith("fix", MaxEntries, 0, {1}, 0..MaxDefaultIndex, {ABSENT, ZERO_ADDRESS})

SpecIndex == InitIndex /\ [][Next]_vars

\* fix, then fix again on the corrected registry
NextAgain == Next \/ RunAgain

SpecAgain == Init /\ [][NextAgain]_vars

(***************************************************************************)
(* Command fix with the option --chains                                    *)
(***************************************************************************)
\* argv.chains split at the commas: one key of the registry, both keys in
\* the other order, or a key the registry does not have, alone or with one
\* it has
Selections == {<<"a">>, <<"b">>, <<"b", "a">>, <<"zz", "a">>, <<"zz">>}

InitChains ==
    InitSelected("fix", MaxEntries, MaxEntries - 1, {1}, {0}, {ABSENT, ZERO_ADDRESS},
                 Selections)

SpecChains == InitChains /\ [][Next]_vars

(***************************************************************************)
(* Any of the commands check, verify-rpcs, verify-contracts and fix        *)
(***************************************************************************)
InitCommands ==
    \/ InitCheck
    \/ \E command \in {"verify-rpcs", "verify-contracts", "fix"} :
          InitWith(command, MaxEntries, MaxEntries - 1, {1}, {0}, {ABSENT, ZERO_ADDRESS})

NextCommands == CmdCheck \/ Next

SpecCommands == InitCommands /\ [][NextCommands]_vars

(***************************************************************************)
(* Properties                                                              *)
(***************************************************************************)
ChainIndex(k) == CHOOSE i \in 1..Len(ChainKeys) : ChainKeys[i] = k

\* verifyRpcs has finished the chain
RpcDone(k) == pc # "verifyRpcs" \/ ChainIndex(k) < ci

\* the endpoint (numbered from 0) answered with the chain id of the registry
Matches(k, i) ==
    /\ i < Len(rpcNet[k])
    /\ rpcNet[k][i + 1].success
    /\ rpcNet[k][i + 1].chainId = chainConfig[k].chainId

\* the endpoint (numbered from 0) answered
Reachable(k, i) == i < Len(rpcNet[k]) /\ rpcNet[k][i + 1].success

Endpoints(k) == 0..(chainConfig[k].rpcUrls - 1)

\* verifyContracts has finished the chain without skipping it
ChainVerified(k) ==
    /\ cmd # "verify-rpcs"
    /\ \E i \in Endpoints(k) : Reachable(k, i)
    /\ \/ pc \in {"merge", "done"}
       \/ pc \in {"contractChecks", "checksumIssues"} /\ ChainIndex(k) < ci

\* verifyContracts has finished entry i of contractChecks for the chain
RoleChecked(k, i) ==
    \/ ChainVerified(k)
    \/ /\ \E e \in Endpoints(k) : Reachable(k, e)
       /\ ChainIndex(k) = ci
       /\ pc = "checksumIssues" \/ (pc = "contractChecks" /\ i < ri)

Roles == 1..Len(contractChecks)

\* the configured address of entry i of contractChecks
Configured(k, i) == chainConfig[k].addresses[contractChecks[i].key]

\* the correction verifyContracts proposes for the address key (ABSENT: none)
Proposed(k, a) == contractCorrections[k].addresses[a]

\* the literal is a valid address other than zero
NonZeroAddress(lit) == lit \in {"0xAb", "0xab", "0xP2"}

\* the checksummed form of a valid literal
Canonical(lit) == IF lit = "0xab" THEN "0xAb" ELSE lit

\* the getCode outcome the network gave for the literal's address
Observed(k, lit) == codeNet[k][Canonical(lit)]

\* C1: fix run again on the corrected registry of a run, the network
\* answering as before, ends with an empty change log (hasChanges false)
C1_SecondRunHasNoChanges == (run = 2 /\ pc = "done") => ~hasChanges

\* C2: a fixed role whose configured non-zero address is observed to have
\* bytecode is never proposed the zero address, whatever the interface probe
C2_NoRegression ==
    \A k \in Chains, i \in Roles :
        (NonZeroAddress(Configured(k, i)) /\ Observed(k, Configured(k, i)) = "code")
            => Proposed(k, contractChecks[i].key) # ZERO_ADDRESS

\* a role with code at its configured address was checked and its interface
\* call failed
C2_Witness ==
    \E k \in Chains, i \in Roles :
        /\ RoleChecked(k, i)
        /\ NonZeroAddress(Configured(k, i))
        /\ Observed(k, Configured(k, i)) = "code"
        /\ callNet[k][contractChecks[i].key][Canonical(Configured(k, i))] = "revert"

\* the lowest endpoint of the chain that reported the configured chain id
LowestMatch(k) == CHOOSE i \in Endpoints(k) :
    Matches(k, i) /\ \A j \in Endpoints(k) : Matches(k, j) => i <= j

\* C3: when some endpoint reports the configured chainId, verifyRpcs selects
\* the lowest such endpoint, corrects defaultRpcUrlIndex to it exactly when
\* it differs from the configured index, and emits no chainId correction
C3_TieBreak ==
    \A k \in Chains :
        (RpcDone(k) /\ \E i \in Endpoints(k) : Matches(k, i)) =>
            /\ rpcResults[k].workingRpc # <<>>
            /\ rpcResults[k].workingRpc[1].index = LowestMatch(k)
            /\ rpcCorrections[k].defaultRpcUrlIndex =
                   IF LowestMatch(k) # chainConfig[k].defaultRpcUrlIndex
                   THEN <<LowestMatch(k)>> ELSE <<>>
            /\ rpcCorrections[k].chainId = <<>>

\* outcomes [Failed, Mismatch, Live(chainId)]: index 2 is selected and proposed
C3_Witness ==
    \E k \in Chains :
        /\ RpcDone(k)
        /\ chainConfig[k].rpcUrls = 3
        /\ ~Reachable(k, 0)
        /\ Reachable(k, 1) /\ ~Matches(k, 1)
        /\ Matches(k, 2)
        /\ rpcCorrections[k].defaultRpcUrlIndex = <<2>>

\* the lowest endpoint of the chain that answered
LowestReachable(k) == CHOOSE i \in Endpoints(k) :
    Reachable(k, i) /\ \A j \in Endpoints(k) : Reachable(k, j) => i <= j

\* C4: when no endpoint reports the configured chainId but one is reachable,
\* verifyRpcs chooses the lowest reachable endpoint and corrects chainId to
\* the chainId it reported
C4_ChainIdCorrection ==
    \A k \in Chains :
        (/\ RpcDone(k)
         /\ \A i \in Endpoints(k) : ~Matches(k, i)
         /\ \E i \in Endpoints(k) : Reachable(k, i)) =>
            /\ rpcResults[k].workingRpc = <<>>
            /\ rpcResults[k].anyWorkingRpc # <<>>
            /\ rpcResults[k].anyWorkingRpc[1].index = LowestReachable(k)
            /\ rpcCorrections[k].chainId = <<rpcNet[k][LowestReachable(k) + 1].chainId>>

\* a failed endpoint followed by two reachable ones, none matching
C4_Witness ==
    \E k \in Chains :
        /\ RpcDone(k)
        /\ chainConfig[k].rpcUrls = 3
        /\ ~Reachable(k, 0) /\ Reachable(k, 1) /\ Reachable(k, 2)
        /\ \A i \in Endpoints(k) : ~Matches(k, i)
        /\ rpcCorrections[k].chainId # <<>>

\* C5: when every endpoint of a chain fails, verifyRpcs emits no correction
\* for the chain and verifyContracts issues no probe and proposes no address
\* correction for it
C5_UnreachableChainSkipped ==
    \A k \in Chains :
        (RpcDone(k) /\ \A i \in Endpoints(k) : ~Reachable(k, i)) =>
            /\ rpcCorrections[k] = NoCorrection
            /\ contractCorrections[k] = NoCorrection
            /\ \A p \in 1..Len(codeProbes) : codeProbes[p].chain # k

\* verify-contracts ended with one chain whose endpoints all failed and
\* another chain that was probed
C5_Witness ==
    /\ pc = "done"
    /\ \E k \in Chains :
          /\ chainConfig[k].rpcUrls > 0
          /\ \A i \in Endpoints(k) : ~Reachable(k, i)
    /\ codeProbes # <<>>

\* the testRpc calls of the run that went to the chain, in order
ProbesOf(k) ==
    LET Mine(p) == p.chain = k
    IN SelectSeq(rpcProbes, Mine)

\* C6 as stated: no endpoint with a higher index is probed after an endpoint
\* has reported the configured chainId
C6_StopsAtFirstMatch ==
    \A k \in Chains :
        \A p, q \in 1..Len(ProbesOf(k)) :
            (p < q) => ~Matches(k, ProbesOf(k)[p].index)

\* C6 amended: verifyRpcs probes the endpoints of a chain in list order, one
\* at a time, and has probed every endpoint of the chain when it chooses,
\* also those after one that reported the configured chainId
C6_ProbesEveryEndpointInOrder ==
    \A k \in Chains :
        /\ \A p \in 1..Len(ProbesOf(k)) : ProbesOf(k)[p].index = p - 1
        /\ RpcDone(k) => Len(ProbesOf(k)) = chainConfig[k].rpcUrls

\* the first endpoint matched and the later ones were probed all the same
C6_Witness ==
    \E k \in Chains :
        /\ RpcDone(k)
        /\ Matches(k, 0)
        /\ Len(ProbesOf(k)) = 3

\* C7: a fixed role whose configured non-zero address has no bytecode is
\* corrected to the default when the role has one and it has bytecode, and
\* to the zero address when it has no default or the default has no bytecode
C7_NoCodeFallsBack ==
    \A k \in Chains, i \in Roles :
        LET default == contractChecks[i].default
        IN (/\ RoleChecked(k, i)
            /\ NonZeroAddress(Configured(k, i))
            /\ Observed(k, Configured(k, i)) = "nocode") =>
               /\ (default # ABSENT /\ codeNet[k][default] = "code")
                     => Proposed(k, contractChecks[i].key) = default
               /\ (default = ABSENT \/ codeNet[k][default] = "nocode")
                     => Proposed(k, contractChecks[i].key) = ZERO_ADDRESS

\* a configured address without code was replaced by the default
C7_Witness ==
    \E k \in Chains, i \in Roles :
        /\ RoleChecked(k, i)
        /\ NonZeroAddress(Configured(k, i))
        /\ Observed(k, Configured(k, i)) = "nocode"
        /\ contractChecks[i].default # ABSENT
        /\ Proposed(k, contractChecks[i].key) = contractChecks[i].default

\* the getCode and call probes of the run issued for the address key
CodeProbesOf(k, a) == {p \in 1..Len(codeProbes) : codeProbes[p].chain = k /\ codeProbes[p].role = a}

\* C8: for a fixed role configured with the zero address (or absent) only
\* the default is probed; the role is corrected to the default exactly when
\* the default has bytecode, otherwise nothing is proposed for it
C8_ZeroUpgradesToDefault ==
    \A k \in Chains, i \in Roles :
        LET default == contractChecks[i].default
            role == contractChecks[i].key
        IN (RoleChecked(k, i) /\ Configured(k, i) \in {ABSENT, ZERO_ADDRESS}) =>
              /\ \A p \in CodeProbesOf(k, role) :
                    codeProbes[p].address = default /\ codeProbes[p].kind = "getCode"
              /\ Cardinality(CodeProbesOf(k, role)) = IF default = ABSENT THEN 0 ELSE 1
              /\ Proposed(k, role) =
                    IF default # ABSENT /\ codeNet[k][default] = "code"
                    THEN default ELSE ABSENT

\* permit2 configured as the zero address, the default has code
C8_Witness ==
    \E k \in Chains, i \in Roles :
        /\ RoleChecked(k, i)
        /\ Configured(k, i) = ZERO_ADDRESS
        /\ contractChecks[i].default # ABSENT
        /\ codeNet[k][contractChecks[i].default] = "code"
        /\ Proposed(k, contractChecks[i].key) = contractChecks[i].default

\* C9: a configured non-zero literal that differs from its checksummed form,
\* of a fixed role or of usdc / usdt, gets a checksum correction whatever
\* the probe outcome (code present, no code, or probe error)
C9_ChecksumWhateverOutcome ==
    /\ \A k \in Chains, i \in Roles :
          (RoleChecked(k, i) /\ Configured(k, i) = "0xab")
              => Proposed(k, contractChecks[i].key) = "0xAb"
    /\ \A k \in Chains, a \in AddrKeySet \cap tokensToVerify :
          (ChainVerified(k) /\ chainConfig[k].addresses[a] = "0xab")
              => Proposed(k, a) = "0xAb"

\* C10: a fixed role configured in non-canonical case with bytecode at the
\* address is proposed the checksummed form of the same address only, never
\* the default and never zero, whether or not the interface probe succeeds
C10_ChecksumOnly ==
    \A k \in Chains, i \in Roles :
        (RoleChecked(k, i) /\ Configured(k, i) = "0xab" /\ Observed(k, "0xab") = "code") =>
            /\ Proposed(k, contractChecks[i].key) = "0xAb"
            /\ Proposed(k, contractChecks[i].key) # contractChecks[i].default
            /\ Proposed(k, contractChecks[i].key) # ZERO_ADDRESS

\* a role with a default, written in lower case, has code, and its interface
\* call failed
C10_Witness ==
    \E k \in Chains, i \in Roles :
        /\ RoleChecked(k, i)
        /\ Configured(k, i) = "0xab"
        /\ contractChecks[i].default # ABSENT
        /\ Observed(k, "0xab") = "code"
        /\ callNet[k][contractChecks[i].key]["0xAb"] = "revert"
        /\ Proposed(k, contractChecks[i].key) = "0xAb"

(***************************************************************************)
(* generateCorrectedConfig and cmdFix                                      *)
(***************************************************************************)
\* the fix command has returned
FixDone == cmd = "fix" /\ pc = "done"

\* the change log of the chain has an entry of that kind for the field
InLog(k, change, field) ==
    \E i \in 1..Len(changesSummary[k]) :
        changesSummary[k][i] = [change |-> change, field |-> field]

\* the address key is one of REQUIRED_ADDRESSES
Required(a) == \E i \in 1..Len(REQUIRED_ADDRESSES) : REQUIRED_ADDRESSES[i] = a

\* C11 as stated: every chain of the corrected registry has every required
\* role, and each role missing in the input is set to the zero address and
\* is in the change log of the chain
C11_BackfillAlwaysZero ==
    FixDone =>
        \A k \in Chains, a \in AddrKeySet :
            Required(a) =>
                /\ corrected[1][k].addresses[a] # ABSENT
                /\ loadedConfig[k].addresses[a] = ABSENT =>
                      /\ corrected[1][k].addresses[a] = ZERO_ADDRESS
                      /\ InLog(k, "Added missing address", a) \/ InLog(k, "Updated address", a)

\* C11 amended: every chain of the corrected registry has every required
\* role; a role missing in the input for which the corrections carry no
\* address is set to the zero address and logged as an added address, and a
\* missing role the corrections carry an address for takes that address and
\* is logged as an updated address
C11_BackfillCompleteness ==
    FixDone =>
        \A k \in Chains, a \in AddrKeySet :
            Required(a) =>
                /\ corrected[1][k].addresses[a] # ABSENT
                /\ (loadedConfig[k].addresses[a] = ABSENT /\ allCorrections[k].addresses[a] = ABSENT) =>
                      /\ corrected[1][k].addresses[a] = ZERO_ADDRESS
                      /\ InLog(k, "Added missing address", a)
                /\ (loadedConfig[k].addresses[a] = ABSENT /\ allCorrections[k].addresses[a] # ABSENT) =>
                      /\ corrected[1][k].addresses[a] = allCorrections[k].addresses[a]
                      /\ InLog(k, "Updated address", a)
                      /\ ~InLog(k, "Added missing address", a)

\* a chain had no usdc and no permit2: usdc was backfilled with zero, and
\* permit2 took the default the contract check proposed
C11_Witness ==
    /\ FixDone
    /\ \E k \in Chains :
          /\ loadedConfig[k].addresses["usdc"] = ABSENT
          /\ corrected[1][k].addresses["usdc"] = ZERO_ADDRESS
          /\ InLog(k, "Added missing address", "usdc")
          /\ loadedConfig[k].addresses["permit2"] = ABSENT
          /\ corrected[1][k].addresses["permit2"] = DEFAULT_ADDRESSES.permit2

C13_InterfaceProbeIndependence ==
    \A k1, k2 \in Chains :
        (chainConfig[k1].addresses = chainConfig[k2].addresses /\ codeNet[k1] = codeNet[k2]) =>
            /\ \A i \in Roles :
                  (RoleChecked(k1, i) /\ RoleChecked(k2, i)) =>
                      Proposed(k1, contractChecks[i].key) = Proposed(k2, contractChecks[i].key)
            /\ (ChainVerified(k1) /\ ChainVerified(k2)) =>
                  contractCorrections[k1] = contractCorrections[k2]

\* two chains with a role written in lower case and code at the address: the
\* interface call succeeded on one and failed on the other, and both are
\* proposed the checksummed form
C13_Witness ==
    \E k1, k2 \in Chains, i \in Roles :
        /\ ChainVerified(k1) /\ ChainVerified(k2)
        /\ codeNet[k1] = codeNet[k2]
        /\ Configured(k1, i) = "0xab" /\ Configured(k2, i) = "0xab"
        /\ Observed(k1, "0xab") = "code"
        /\ callNet[k1][contractChecks[i].key]["0xAb"] = "ok"
        /\ callNet[k2][contractChecks[i].key]["0xAb"] = "revert"
        /\ Proposed(k1, contractChecks[i].key) = "0xAb"
        /\ Proposed(k2, contractChecks[i].key) = "0xAb"

\* C14: in the corrected registry the defaultRpcUrlIndex of every chain is
\* an index of its rpcUrls, an index out of range in the input having been
\* corrected (to 0 when no better index is known)
C14_DefaultIndexValid ==
    FixDone =>
        \A k \in Chains :
            \/ corrected[1][k].defaultRpcUrlIndex \in Endpoints(k)
            \/ corrected[1][k].defaultRpcUrlIndex = 0

\* C15: an address literal that is not a valid address, on a chain that was
\* verified, is replaced by the zero address in the corrected registry and
\* the replacement is in the change log of the chain
C15_InvalidLiteralHealed ==
    FixDone =>
        \A k \in Chains, a \in AddrKeySet :
            (ChainVerified(k) /\ IsNonZero(loadedConfig[k].addresses[a])
                              /\ ~IsAddress(loadedConfig[k].addresses[a])) =>
                /\ corrected[1][k].addresses[a] = ZERO_ADDRESS
                /\ InLog(k, "Updated address", a)

(***************************************************************************)
(* verifyRpcs to its end                                                   *)
(***************************************************************************)
\* verifyRpcs has returned with a result entry for every chain, holding one
\* outcome per endpoint of the chain, each as the network answered it
RpcAllEvaluated ==
    /\ pc = "done"
    /\ \A k \in Chains :
          /\ rpcResults[k] # NoResult
          /\ Len(rpcResults[k].rpcResults) = chainConfig[k].rpcUrls
          /\ Len(rpcNet[k]) = chainConfig[k].rpcUrls
          /\ \A i \in 1..chainConfig[k].rpcUrls :
                /\ rpcResults[k].rpcResults[i].index = i - 1
                /\ rpcResults[k].rpcResults[i].success = rpcNet[k][i].success
                /\ rpcResults[k].rpcResults[i].chainId = rpcNet[k][i].chainId

\* C16: whatever the endpoints answer (the configured chainId, another
\* chainId, a failure or a timeout), verifyRpcs completes with a result
\* entry for every chain; a failed probe is the failed outcome of its
\* endpoint only, the endpoints after it and the chains after it being
\* evaluated all the same
C16_LivenessFailureIsolation == <>RpcAllEvaluated

\* verifyRpcs has returned; the first endpoint of a chain failed, a later
\* one answered and was chosen, and the other chain was evaluated after it
C16_Witness ==
    /\ RpcAllEvaluated
    /\ chainConfig[ChainKeys[1]].rpcUrls >= 2
    /\ ~rpcNet[ChainKeys[1]][1].success
    /\ rpcNet[ChainKeys[1]][2].success
    /\ rpcResults[ChainKeys[1]].anyWorkingRpc # <<>>
    /\ chainConfig[ChainKeys[2]].rpcUrls >= 1
    /\ ~rpcNet[ChainKeys[2]][1].success

(***************************************************************************)
(* verifyContracts to its end                                              *)
(***************************************************************************)
\* fetching the code of the role's configured address, or of its default
\* when the body asks for it, failed
CodeFetchFailed(k, i) ==
    LET default == contractChecks[i].default
    IN \/ NonZeroAddress(Configured(k, i)) /\ Observed(k, Configured(k, i)) = "error"
       \/ /\ default # ABSENT
          /\ codeNet[k][default] = "error"
          /\ \/ ~IsNonZero(Configured(k, i))
             \/ NonZeroAddress(Configured(k, i)) /\ Observed(k, Configured(k, i)) = "nocode"

\* a role whose code fetch failed has no correction
NoCorrectionOnFetchError ==
    \A k \in Chains, i \in Roles :
        (RoleChecked(k, i) /\ CodeFetchFailed(k, i)) => Proposed(k, contractChecks[i].key) = ABSENT

\* verifyContracts has returned, and on every chain with a reachable
\* endpoint every role that has a default or a configured non-zero address
\* was probed
ContractsAllVerified ==
    /\ cmd = "verify-contracts"
    /\ pc = "done"
    /\ \A k \in Chains, i \in Roles :
          ((\E e \in Endpoints(k) : Reachable(k, e))
              /\ (contractChecks[i].default # ABSENT \/ IsNonZero(Configured(k, i))))
            => CodeProbesOf(k, contractChecks[i].key) # {}

ChangeLogNonEmpty == \E k \in Chains : changesSummary[k] # <<>>

\* C18: fix writes the corrected registry file if and only if the change
\* log is non-empty: the file is written by the time fix returns when some
\* chain has a change, and saveCorrectedConfig is never called otherwise
C18_SaveIffChanges ==
    /\ savedConfig # <<>> => (FixDone /\ ChangeLogNonEmpty)
    /\ FixDone => (hasChanges <=> ChangeLogNonEmpty)
    /\ (FixDone /\ ChangeLogNonEmpty) => savedConfig = <<saveCorrectedConfig(corrected[1])>>

\* fix has returned on a registry with an endpoint that answered, without
\* any change, and nothing was written
C18_Witness ==
    /\ FixDone
    /\ ~ChangeLogNonEmpty
    /\ savedConfig = <<>>
    /\ \E k \in Chains : ChainVerified(k)

\* C19: for every chain key in the liveness corrections or the contract
\* corrections, the merged corrections carry the defaultRpcUrlIndex and
\* chainId of the liveness evaluator and every address of the contract
\* verifier, the contract verifier's value winning where both have one; a
\* key in neither is not in the merged corrections
C19_MergeOfCorrections ==
    FixDone =>
        \A k \in Chains :
            LET rpc == rpcCorrections[k]
                contract == contractCorrections[k]
                merged == allCorrections[k]
            IN IF ~HasKey(rpc) /\ ~HasKey(contract) THEN ~HasKey(merged)
               ELSE /\ merged.defaultRpcUrlIndex =
                          IF contract.defaultRpcUrlIndex # <<>>
                          THEN contract.defaultRpcUrlIndex ELSE rpc.defaultRpcUrlIndex
                    /\ merged.chainId =
                          IF contract.chainId # <<>> THEN contract.chainId ELSE rpc.chainId
                    /\ \A a \in AddrKeySet :
                          /\ contract.addresses[a] # ABSENT =>
                                merged.addresses[a] = contract.addresses[a]
                          /\ contract.addresses[a] = ABSENT =>
                                merged.addresses[a] = rpc.addresses[a]

\* a chain has a chainId correction of the liveness evaluator and an address
\* correction of the contract verifier, and the merged corrections have both
C19_Witness ==
    /\ FixDone
    /\ \E k \in Chains, a \in AddrKeySet :
          /\ rpcCorrections[k].chainId # <<>>
          /\ contractCorrections[k].addresses[a] # ABSENT
          /\ allCorrections[k].chainId = rpcCorrections[k].chainId
          /\ allCorrections[k].addresses[a] = contractCorrections[k].addresses[a]

(***************************************************************************)
(* checkBasicIntegrity                                                     *)
(***************************************************************************)
\* the indexes in CheckKeys of the chains before entry i
Earlier(i) == 1..(i - 1)

\* entry i has the chainId of an earlier chain
DuplicateChainId(i) ==
    \E j \in Earlier(i) :
        chainConfig[CheckKeys[j]].chainId = chainConfig[CheckKeys[i]].chainId

\* the lzSrcId of the chain is a number other than zero
NonZeroLzSrcId(chain) == chain.lzSrcId # <<>> /\ chain.lzSrcId # <<0>>

\* entry i has the non-zero lzSrcId of an earlier chain
DuplicateLzSrcId(i) ==
    /\ NonZeroLzSrcId(chainConfig[CheckKeys[i]])
    /\ \E j \in Earlier(i) :
          chainConfig[CheckKeys[j]].lzSrcId = chainConfig[CheckKeys[i]].lzSrcId

\* the issues of that kind returned for the key
IssuesFor(kind, key) ==
    {n \in 1..Len(issues) : issues[n].issue = kind /\ issues[n].key = key}

\* C20: checkBasicIntegrity returns one issue for every chain that has the
\* chainId of an earlier chain, one for every chain that has the non-zero
\* lzSrcId of an earlier chain, none for a chain whose lzSrcId is zero or
\* absent and no other issue; it returns the empty sequence exactly when
\* there is no such duplicate, and it leaves the registry as it was
C20_BasicIntegrityIssues ==
    (cmd = "check" /\ pc = "done") =>
        /\ \A i \in 1..Len(CheckKeys) :
              /\ Cardinality(IssuesFor("Duplicate chainId", CheckKeys[i])) =
                    IF DuplicateChainId(i) THEN 1 ELSE 0
              /\ Cardinality(IssuesFor("Duplicate LayerZero ID", CheckKeys[i])) =
                    IF DuplicateLzSrcId(i) THEN 1 ELSE 0
              /\ ~NonZeroLzSrcId(chainConfig[CheckKeys[i]]) =>
                    IssuesFor("Duplicate LayerZero ID", CheckKeys[i]) = {}
        /\ \A n \in 1..Len(issues) :
              issues[n].issue \in {"Duplicate chainId", "Duplicate LayerZero ID"}
        /\ issues = <<>> <=>
              \A i \in 1..Len(CheckKeys) : ~DuplicateChainId(i) /\ ~DuplicateLzSrcId(i)
        /\ chainConfig = loadedConfig

\* three chains with one chainId, two of them with lzSrcId zero and the
\* third without lzSrcId: two issues, both for the chainId
C20_Witness ==
    /\ cmd = "check" /\ pc = "done"
    /\ \A i \in 1..Len(CheckKeys) : chainConfig[CheckKeys[i]].chainId = 1
    /\ chainConfig[CheckKeys[1]].lzSrcId = <<0>>
    /\ chainConfig[CheckKeys[2]].lzSrcId = <<0>>
    /\ chainConfig[CheckKeys[3]].lzSrcId = <<>>
    /\ Len(issues) = 2

(***************************************************************************)
(* Addresses outside the fixed role table (token loop of verifyContracts). *)
(***************************************************************************)
OtherKeys == AddrKeySet \ checkedAddressKeys

\* the literal configured under the address key
ConfiguredAt(k, a) == chainConfig[k].addresses[a]

OtherChecked(k, a) ==
    /\ ChainVerified(k)
    /\ a \in OtherKeys
    /\ NonZeroAddress(ConfiguredAt(k, a))

CodeSeenAt(k, a, addr) ==
    \E p \in CodeProbesOf(k, a) : codeProbes[p].address = addr /\ codeProbes[p].kind = "getCode"

OwnRpcCorrection(k) ==
    [defaultRpcUrlIndex |->
        IF (\E i \in Endpoints(k) : Matches(k, i))
              /\ LowestMatch(k) # chainConfig[k].defaultRpcUrlIndex
        THEN <<LowestMatch(k)>> ELSE <<>>,
     chainId |->
        IF (\A i \in Endpoints(k) : ~Matches(k, i)) /\ (\E i \in Endpoints(k) : Reachable(k, i))
        THEN <<rpcNet[k][LowestReachable(k) + 1].chainId>> ELSE <<>>,
     addresses |-> NoAddresses]

\* the default address of the fixed role (ABSENT: the role has none)
DefaultOf(a) == contractChecks[CHOOSE i \in Roles : contractChecks[i].key = a].default

\* the address verifyContracts records for a fixed role of the chain
OwnRoleCorrection(k, a) ==
    LET lit == ConfiguredAt(k, a)
        d == DefaultOf(a)
    IN IF lit \in {ABSENT, ZERO_ADDRESS}
       THEN IF d # ABSENT /\ codeNet[k][d] = "code" THEN d ELSE ABSENT
       ELSE IF ~IsAddress(lit) THEN ABSENT
       ELSE IF Observed(k, lit) = "code"
       THEN IF Canonical(lit) # lit THEN Canonical(lit) ELSE ABSENT
       ELSE IF Observed(k, lit) = "nocode"
       THEN IF d = ABSENT THEN ZERO_ADDRESS
            ELSE IF codeNet[k][d] = "code" THEN d
            ELSE IF codeNet[k][d] = "nocode" THEN ZERO_ADDRESS
            ELSE ABSENT
       ELSE ABSENT

\* the address verifyContracts records for a key outside the fixed roles
OwnTokenCorrection(k, a) ==
    LET lit == ConfiguredAt(k, a)
    IN IF a \notin {"usdc", "usdt"} \/ ~NonZeroAddress(lit) THEN ABSENT
       ELSE IF Observed(k, lit) \notin {"code", "nocode"} THEN ABSENT
       ELSE IF Canonical(lit) # lit THEN Canonical(lit)
       ELSE IF Observed(k, lit) = "nocode" THEN ZERO_ADDRESS
       ELSE ABSENT

\* the corrections verifyContracts records for the chain
OwnContractCorrection(k) ==
    [defaultRpcUrlIndex |-> <<>>,
     chainId |-> <<>>,
     addresses |-> [a \in AddrKeySet |->
        IF ~(\E i \in Endpoints(k) : Reachable(k, i)) THEN ABSENT
        ELSE IF a \in checkedAddressKeys THEN OwnRoleCorrection(k, a)
        ELSE OwnTokenCorrection(k, a)]]

\* C22: the corrections and the change-log entries of a chain are determined
\* by the chain's own descriptor and the answers of its own endpoints, so
\* another chain's descriptor or outcomes cannot change them
C22_ChainIndependence ==
    \A k \in Chains :
        /\ RpcDone(k) => rpcCorrections[k] = OwnRpcCorrection(k)
        /\ ~RpcDone(k) => rpcCorrections[k] = NoCorrection
        /\ (pc \in {"merge", "done"} /\ cmd # "verify-rpcs")
              => contractCorrections[k] = OwnContractCorrection(k)
        /\ FixDone => changesSummary[k] =
              ChainChanges(chainConfig[k],
                           MergeCorrection(OwnRpcCorrection(k), OwnContractCorrection(k)))

C22_Witness ==
    /\ FixDone
    /\ HasKey(contractCorrections["a"]) /\ ~HasKey(contractCorrections["b"])
    /\ ~HasKey(rpcCorrections["a"]) /\ HasKey(rpcCorrections["b"])
    /\ changesSummary["a"] # changesSummary["b"]

\* C23: every probe of verifyContracts goes through the endpoint the liveness
\* evaluation chose for the chain: the first endpoint that reported the
\* configured chainId when there is one, otherwise the first reachable
\* endpoint, and never an endpoint whose probe failed
C23_ProbesThroughChosenEndpoint ==
    \A p \in 1..Len(codeProbes) :
        LET k == codeProbes[p].chain
            rpc == codeProbes[p].rpc
        IN /\ rpc \in Endpoints(k)
           /\ Reachable(k, rpc)
           /\ rpc = (IF \E i \in Endpoints(k) : Matches(k, i)
                     THEN LowestMatch(k) ELSE LowestReachable(k))

C23_Witness ==
    /\ \E p \in 1..Len(codeProbes) :
          LET k == codeProbes[p].chain
          IN /\ codeProbes[p].rpc = 1
             /\ Reachable(k, 0) /\ ~Matches(k, 0) /\ Matches(k, 1)
    /\ pc = "done"

\* the corrected registry has been written to chains-corrected.mjs
CorrectedWritten == savedConfig # <<>>

\* C24: check, verify-rpcs and verify-contracts never write a corrected
\* registry; no command writes to the registry file chains.mjs; only fix
\* writes the corrected registry, and it writes it to chains-corrected.mjs
C24_OnlyFixWrites ==
    /\ [](CorrectedWritten => cmd = "fix")
    /\ [](outputPath = "chains-corrected.mjs" /\ outputPath # configPath)
    /\ [][loadedConfig' = loadedConfig]_vars
    /\ [][CorrectedWritten' /\ ~CorrectedWritten =>
             cmd = "fix" /\ savedConfig' = <<saveCorrectedConfig(corrected'[1])>>]_vars

C24_Witness ==
    /\ cmd = "verify-contracts"
    /\ pc = "done"
    /\ \E k \in Chains : HasKey(contractCorrections[k])
    /\ ~CorrectedWritten

(***************************************************************************)
(* fetch_chainlist_rpcs.mjs and aggregate_chain_data.mjs: mergeChainData,  *)
(* the rpcUrls of one chain merged with the chain's entry of chainlist.org *)
(***************************************************************************)
MaxExistingRpcs == 2
MaxChainlistRpcs == 2

\* a URL: its scheme and the rest of it; NoUrl: an entry without url
Urls == {[scheme |-> "https", host |-> "a"], [scheme |-> "https", host |-> "b"],
         [scheme |-> "http", host |-> "a"]}

NoUrl == [scheme |-> "", host |-> ""]

\* tracking of a chainlist entry ("undefined": the entry is a bare string or
\* has no tracking field)
Trackings == {"none", "yes", "limited", "undefined"}

ChainlistRpc == [url : Urls \cup {NoUrl}, tracking : Trackings]

\* the sequences over S of at most n elements
SeqUpTo(S, n) == UNION {[1..m -> S] : m \in 0..n}

Range(s) == {s[i] : i \in 1..Len(s)}

\* url && url.startsWith('https://')
startsWithHttps(url) == url # NoUrl /\ url.scheme = "https"

\* extractRpcUrls(chainlistRpcs)
extractRpcUrls(chainlistRpcs) ==
    LET Kept(rpc) == startsWithHttps(rpc.url) /\ rpc.tracking \notin {"yes", "limited"}
        kept == SelectSeq(chainlistRpcs, Kept)
    IN [i \in 1..Len(kept) |-> kept[i].url]

\* chainlistRpcs.filter(url => !existingRpcs.has(url))
newRpcs(existingChain_, chainlistChain_) ==
    LET existingRpcs == Range(existingChain_.rpcUrls)
        IsNew(url) == url \notin existingRpcs
    IN SelectSeq(extractRpcUrls(chainlistChain_.rpc), IsNew)

\* validateAndCompleteChain(chain), as far as rpcUrls goes
validateAndCompleteChain(chain) ==
    [chain EXCEPT !.rpcUrls = IF Len(@) > 0 THEN @ ELSE <<>>]

\* mergeChainData(existingChain, chainlistChain) of fetch_chainlist_rpcs.mjs
mergeChainData(existingChain_, chainlistChain_) ==
    validateAndCompleteChain(
        [existingChain_ EXCEPT !.rpcUrls = @ \o newRpcs(existingChain_, chainlistChain_)])

\* mergeChainData(existing, gaszip, chainlist, coingecko) of
\* aggregate_chain_data.mjs, with a chainlist entry
mergeChainDataAggregate(existing, chainlist) ==
    LET new == newRpcs(existing, chainlist)
    IN validateAndCompleteChain(
           IF Len(new) > 0 THEN [existing EXCEPT !.rpcUrls = @ \o new] ELSE existing)

InitMerge ==
    /\ cmd \in {"fetch_chainlist_rpcs", "aggregate_chain_data"}
    /\ existingChain \in [rpcUrls : SeqUpTo(Urls, MaxExistingRpcs)]
    /\ chainlistChain \in [rpc : SeqUpTo(ChainlistRpc, MaxChainlistRpcs)]
    /\ mergedChain = <<>>
    /\ selectedKeys = <<>>
    /\ pc = "mergeChainData"
    /\ run = 1
    /\ chainConfig = <<>>
    /\ loadedConfig = <<>>
    /\ rpcNet = <<>>
    /\ codeNet = <<>>
    /\ callNet = <<>>
    /\ ci = 1
    /\ ri = 1
    /\ curRpcResults = <<>>
    /\ rpcResults = <<>>
    /\ rpcCorrections = <<>>
    /\ checksumIssues = <<>>
    /\ contractCorrections = <<>>
    /\ rpcProbes = <<>>
    /\ codeProbes = <<>>
    /\ allCorrections = <<>>
    /\ corrected = <<>>
    /\ changesSummary = <<>>
    /\ hasChanges = FALSE
    /\ savedConfig = <<>>
    /\ issues = <<>>

\* fetch_chainlist_rpcs.mjs: merged = mergeChainData(chain, chainlistChain)
MergeChainlist ==
    /\ pc = "mergeChainData"
    /\ cmd = "fetch_chainlist_rpcs"
    /\ mergedChain' = <<mergeChainData(existingChain, chainlistChain)>>
    /\ pc' = "done"
    /\ UNCHANGED <<selectedKeys, existingChain, chainlistChain, cmd, run, chainConfig, loadedConfig, rpcNet,
                   codeNet, callNet, ci, ri, curRpcResults, rpcResults, rpcCorrections,
                   checksumIssues, contractCorrections, rpcProbes, codeProbes,
                   allCorrections, corrected, changesSummary, hasChanges, savedConfig,
                   issues>>

\* aggregate_chain_data.mjs: result = mergeChainData(chain, null, chainlist, coingecko)
MergeAggregate ==
    /\ pc = "mergeChainData"
    /\ cmd = "aggregate_chain_data"
    /\ mergedChain' = <<mergeChainDataAggregate(existingChain, chainlistChain)>>
    /\ pc' = "done"
    /\ UNCHANGED <<selectedKeys, existingChain, chainlistChain, cmd, run, chainConfig, loadedConfig, rpcNet,
                   codeNet, callNet, ci, ri, curRpcResults, rpcResults, rpcCorrections,
                   checksumIssues, contractCorrections, rpcProbes, codeProbes,
                   allCorrections, corrected, changesSummary, hasChanges, savedConfig,
                   issues>>

NextMerge == MergeChainlist \/ MergeAggregate

SpecMerge == InitMerge /\ [][NextMerge]_vars

\* the URL passes the filter of extractRpcUrls in some entry of the chainlist
Qualifies(url) ==
    /\ url # NoUrl /\ url.scheme = "https"
    /\ \E i \in 1..Len(chainlistChain.rpc) :
          chainlistChain.rpc[i].url = url
              /\ chainlistChain.rpc[i].tracking \notin {"yes", "limited"}

\* no element occurs twice in the sequence
NoDuplicates(s) == \A i, j \in 1..Len(s) : s[i] = s[j] => i = j

\* the positions mergeChainData appended to rpcUrls
Appended == (Len(existingChain.rpcUrls) + 1)..Len(mergedChain[1].rpcUrls)

\* C25: mergeChainData keeps the existing rpcUrls as an unchanged prefix and
\* appends, exactly once each, only the chainlist URLs that start with
\* https://, whose tracking is neither yes nor limited and that are not in the
\* list already, so that the merged list has no URL twice when the existing
\* list had none twice
C25_MergePreservesExisting ==
    mergedChain # <<>> =>
        LET old == existingChain.rpcUrls
            new == mergedChain[1].rpcUrls
        IN /\ Len(old) <= Len(new)
           /\ SubSeq(new, 1, Len(old)) = old
           /\ \A i \in Appended : Qualifies(new[i]) /\ new[i] \notin Range(old)
           /\ \A url \in Urls :
                 Qualifies(url) /\ url \notin Range(old)
                     => Cardinality({i \in Appended : new[i] = url}) = 1
           /\ NoDuplicates(old) => NoDuplicates(new)

\* C26: a usdc or usdt address that is non-zero and has no bytecode is
\* corrected to the zero address in what verifyContracts returns, also when
\* its literal is not in checksummed form
C26_TokenWithoutCodeZeroed ==
    \A k \in Chains : \A a \in OtherKeys \cap {"usdc", "usdt"} :
        (OtherChecked(k, a) /\ IsAddress(ConfiguredAt(k, a))
            /\ Observed(k, ConfiguredAt(k, a)) = "nocode")
        => Proposed(k, a) = ZERO_ADDRESS

\* C27: verifyRpcs never records a defaultRpcUrlIndex and a chainId correction
\* for the same chain: the index is corrected only when some endpoint reports
\* the configured chainId, the chainId only when none does, and with a
\* chainId correction the default index stays as configured even when the
\* first reachable endpoint is not the default one
C27_IndexAndChainIdExclusive ==
    \A k \in Chains :
        RpcDone(k) =>
            LET c == rpcCorrections[k]
                someMatch == \E i \in Endpoints(k) : Matches(k, i)
            IN /\ ~(c.defaultRpcUrlIndex # <<>> /\ c.chainId # <<>>)
               /\ c.defaultRpcUrlIndex # <<>> => someMatch
               /\ c.chainId # <<>> => ~someMatch
               /\ (~someMatch /\ \E i \in Endpoints(k) : Reachable(k, i))
                     => c.chainId # <<>> /\ c.defaultRpcUrlIndex = <<>>

C27_Witness ==
    \E k \in Chains :
        /\ RpcDone(k)
        /\ rpcCorrections[k].chainId # <<>>
        /\ rpcCorrections[k].defaultRpcUrlIndex = <<>>
        /\ LowestReachable(k) # chainConfig[k].defaultRpcUrlIndex
        /\ chainConfig[k].defaultRpcUrlIndex \in Endpoints(k)

\* C28: an address verifyContracts proposes for a fixed role is the zero
\* address, the role's default with bytecode observed at the default, or the
\* checksummed form of the configured address with bytecode observed at it;
\* and it never equals the configured literal
C28_ProposedValuesClosed ==
    \A k \in Chains, i \in Roles :
        LET lit == Configured(k, i)
            d == contractChecks[i].default
            p == Proposed(k, contractChecks[i].key)
        IN p # ABSENT =>
              /\ \/ p = ZERO_ADDRESS
                 \/ d # ABSENT /\ p = d /\ codeNet[k][d] = "code"
                 \/ NonZeroAddress(lit) /\ p = Canonical(lit) /\ Observed(k, lit) = "code"
              /\ p # lit

C28_Witness ==
    \E k \in Chains, i \in Roles :
        /\ ChainVerified(k)
        /\ NonZeroAddress(Configured(k, i))
        /\ Observed(k, Configured(k, i)) = "nocode"
        /\ contractChecks[i].default # ABSENT
        /\ Proposed(k, contractChecks[i].key) = contractChecks[i].default

\* the field of the chain has another value in the corrected registry than in
\* the registry generateCorrectedConfig was given
FieldDiffers(k, field) ==
    IF field \in {"defaultRpcUrlIndex", "chainId"}
    THEN corrected[1][k][field] # loadedConfig[k][field]
    ELSE corrected[1][k].addresses[field] # loadedConfig[k].addresses[field]

\* C29: the change log is faithful: hasChanges holds exactly when the
\* corrected registry differs from the input, a chain has entries in
\* changesSummary exactly when one of its fields differs, and every entry
\* names a field whose corrected value differs from the input value
C29_ChangeLogFaithful ==
    FixDone =>
        /\ hasChanges <=> corrected[1] # loadedConfig
        /\ \A k \in Chains :
              /\ changesSummary[k] # <<>> <=> corrected[1][k] # loadedConfig[k]
              /\ \A i \in 1..Len(changesSummary[k]) :
                    FieldDiffers(k, changesSummary[k][i].field)

C29_Witness ==
    /\ FixDone
    /\ hasChanges
    /\ \E k, other \in Chains :
          /\ Len(changesSummary[k]) >= 2
          /\ InLog(k, "Updated", "chainId")
          /\ changesSummary[other] = <<>>
          /\ corrected[1][other] = loadedConfig[other]

\* the chains cmdFix hands to the verifiers
SelectedChains == Range(ProbedKeys(selectedKeys))

\* the chain of the corrected registry is the chain of the registry, but for
\* required addresses the registry leaves out, written as the zero address
OnlyBackfilled(k) ==
    /\ corrected[1][k].chainId = loadedConfig[k].chainId
    /\ corrected[1][k].rpcUrls = loadedConfig[k].rpcUrls
    /\ corrected[1][k].defaultRpcUrlIndex = loadedConfig[k].defaultRpcUrlIndex
    /\ \A a \in AddrKeySet :
          \/ corrected[1][k].addresses[a] = loadedConfig[k].addresses[a]
          \/ /\ Required(a)
             /\ loadedConfig[k].addresses[a] = ABSENT
             /\ corrected[1][k].addresses[a] = ZERO_ADDRESS

\* C30: with --chains, fix probes only the selected chains, the corrected
\* registry still holds every chain of the full registry, and a chain that
\* was not selected differs from the input at most by required addresses
\* that were missing and are written as the zero address
C30_ChainsFilter ==
    selectedKeys # <<>> =>
        /\ \A p \in 1..Len(rpcProbes) : rpcProbes[p].chain \in SelectedChains
        /\ \A p \in 1..Len(codeProbes) : codeProbes[p].chain \in SelectedChains
        /\ FixDone =>
              /\ DOMAIN corrected[1] = DOMAIN loadedConfig
              /\ \A k \in Chains \ SelectedChains :
                    /\ OnlyBackfilled(k)
                    /\ ~HasKey(allCorrections[k])

C30_Witness ==
    /\ FixDone
    /\ selectedKeys = <<"a">>
    /\ HasKey(allCorrections["a"])
    /\ corrected[1]["a"] # loadedConfig["a"]
    /\ loadedConfig["b"].rpcUrls >= 1
    /\ \E a \in AddrKeySet :
          /\ loadedConfig["b"].addresses[a] = ABSENT
          /\ corrected[1]["b"].addresses[a] = ZERO_ADDRESS
    /\ savedConfig # <<>>

====
